---- MODULE Spec2Model ----
(***************************************************************************)
(* fastats: per-record masking statistics and BED interval emission.       *)
(*                                                                         *)
(* Two programs are modelled.                                              *)
(*   - src/src/lib.rs: process_fasta_record, one invocation on one record, *)
(*     stepped one base at a time (variables without prefix).              *)
(*   - src/src/main.rs: main, the rayon par_iter driver with its own       *)
(*     per-record loop (variables prefixed d_).                            *)
(* Strings are sequences of one-character strings; Option<T> is a sequence *)
(* of length 0 (None) or 1 (Some).                                         *)
(***************************************************************************)
EXTENDS Integers, Sequences, FiniteSets, TLC

VARIABLES
    record_name,              \* record.definition().name()
    sequence,                 \* record.sequence()
    output_dir,               \* Option<&Path>: TRUE iff Some(dir)
    sequence_match_regex,     \* the filter pattern handed to process_fasta
    pc,                       \* position of the invocation
    index1,
    gc_counter,
    non_mask_counter,
    soft_mask_counter,
    hard_mask_counter,
    region_start,             \* category -> Option<usize>
    flags,                    \* category -> bool: non_masking, soft_masking, hard_masking of the last base
    hasher,                   \* bytes fed to the Sha256 hasher so far
    bed_files,                \* categories whose BED file was created
    bed,                      \* category -> records written to its BED writer
    result,                   \* Option<SequenceStatistics> returned
    panic_msg,                \* Option<panic payload>
    ambiguous,                \* number of bases processed with soft_masking and hard_masking both set
    writer_ok,                \* the BED writers' underlying files accept writes
    dropped_errors,           \* number of Err results of write_bed_record discarded by `let _ =`
    first_result,             \* result of the previous invocation on the same record
    calls,                    \* number of invocations started on the record
    anchored,                 \* results of ensure_full_match_regex: on the pattern, then on that result
    \* main.rs
    d_records,                \* records: Vec<FastaRecord>, each [name, sequence]
    d_cuts,                   \* i in d_cuts: rayon split the slice between records i and i+1
    d_pc,                     \* per record: position of its closure call
    d_index1,                 \* per record: index1
    d_gc,                     \* per record: gc_counter
    d_soft,                   \* per record: soft_mask_counter
    d_hard,                   \* per record: hard_mask_counter
    d_start,                  \* per record: category -> Option<usize> region start
    d_fs,                     \* BED files: path -> lines written
    d_stdout,                 \* lines printed
    d_main                    \* position of main

vars == <<record_name, sequence, output_dir, sequence_match_regex, pc, index1,
          gc_counter, non_mask_counter, soft_mask_counter, hard_mask_counter,
          region_start, flags, hasher, bed_files, bed, result, panic_msg,
          ambiguous, writer_ok, dropped_errors, first_result, calls, anchored,
          d_records, d_cuts, d_pc, d_index1, d_gc, d_soft, d_hard, d_start,
          d_fs, d_stdout, d_main>>

dvars == <<d_records, d_cuts, d_pc, d_index1, d_gc, d_soft, d_hard, d_start,
           d_fs, d_stdout, d_main>>

-----------------------------------------------------------------------------
(* Bounds *)

MaxLen == 3          \* longest record sequence of Spec
MaxPatLen == 3       \* longest filter pattern of SpecFilter
MaxNameLen == 2      \* longest record name of SpecFilter
DNumRecords == 3     \* records in the input file of SpecDriver
DMaxLen == 2         \* longest record sequence of SpecDriver
INumRecords == 2     \* records in the input file of SpecInterleave

-----------------------------------------------------------------------------
(* Alphabets *)

\* "X" stands for any byte the match in process_fasta_record does not list.
Bases == {"A", "C", "G", "T", "a", "c", "g", "t", "N", "n", "X"}

NonMasked == "non-masked"
SoftMasked == "soft-masked"
HardMasked == "hard-masked"
Categories == {NonMasked, SoftMasked, HardMasked}

NameChars == {"a", "b"}
RegexChars == {"a", "b", ".", "*", "|", "^", "$"}

RECURSIVE SeqsUpTo(_, _)
SeqsUpTo(S, n) ==
    IF n = 0 THEN {<<>>}
    ELSE LET shorter == SeqsUpTo(S, n - 1)
         IN shorter \cup {Append(s, x) : s \in {t \in shorter : Len(t) = n - 1}, x \in S}

None == <<>>
Some(x) == <<x>>

-----------------------------------------------------------------------------
(* ensure_full_match_regex, lib.rs 210-222 *)

starts_with(s, c) == Len(s) > 0 /\ s[1] = c
ends_with(s, c) == Len(s) > 0 /\ s[Len(s)] = c

\* ensure_full_match_regex whose third branch returns the pattern as it is.
ensure_full_match_regex_end_only(regex) ==
    LET start_ok == starts_with(regex, "^")
        end_ok == ends_with(regex, "$")
    IN IF start_ok /\ end_ok THEN regex
       ELSE IF start_ok /\ ~end_ok THEN regex \o <<"$">>
       ELSE IF ~start_ok /\ end_ok THEN regex
       ELSE <<"^">> \o regex \o <<"$">>

ensure_full_match_regex(regex) ==
    LET start_ok == starts_with(regex, "^")
        end_ok == ends_with(regex, "$")
    IN IF start_ok /\ end_ok THEN regex
       ELSE IF start_ok /\ ~end_ok THEN regex \o <<"$">>
       ELSE IF ~start_ok /\ end_ok THEN <<"^">> \o regex
       ELSE <<"^">> \o regex \o <<"$">>

-----------------------------------------------------------------------------
(* Regex::new and Regex::is_match as used at lib.rs 52-55.  The regex crate *)
(* is modelled on the pattern language of literals, '.', postfix '*',       *)
(* alternation '|' and the anchors '^' and '$'.                             *)

\* The branches of a top-level alternation: the maximal '|'-free pieces.
Branches(q) ==
    {SubSeq(q, s, e) : <<s, e>> \in
        {se \in (1..(Len(q) + 1)) \X (0..Len(q)) :
            /\ se[1] <= se[2] + 1
            /\ (se[1] = 1 \/ q[se[1] - 1] = "|")
            /\ (se[2] = Len(q) \/ q[se[2] + 1] = "|")
            /\ \A k \in se[1]..se[2] : q[k] # "|"}}

\* Regex::new(q).is_ok(): a '*' that opens a branch has nothing to repeat.
RegexValid(q) == \A b \in Branches(q) : ~starts_with(b, "*")

\* The patterns on which this model of the regex crate is exact: every '*'
\* repeats a literal or '.', or follows '|' (a certain parse error); no branch
\* is empty.
InRegexSubset(p) ==
    /\ \A k \in 1..Len(p) :
          p[k] = "*" => (k > 1 /\ p[k - 1] \in {"a", "b", ".", "|"})
    /\ (p = <<>> \/ \A b \in Branches(p) : b # <<>>)

\* Positions reachable from the positions S of haystack `name` by one atom c.
StepAtom(c, name, S) ==
    IF c = "^" THEN S \cap {0}
    ELSE IF c = "$" THEN S \cap {Len(name)}
    ELSE IF c = "." THEN {i + 1 : i \in {j \in S : j < Len(name)}}
    ELSE {i + 1 : i \in {j \in S : j < Len(name) /\ name[j + 1] = c}}

RECURSIVE StarClose(_, _, _)
StarClose(c, name, S) ==
    LET T == StepAtom(c, name, S)
    IN IF T \subseteq S THEN S ELSE StarClose(c, name, S \cup T)

\* Positions where a match of branch[k..] can end when it starts in S.
RECURSIVE BranchEnd(_, _, _, _)
BranchEnd(branch, name, k, S) ==
    IF k > Len(branch) THEN S
    ELSE IF k + 1 <= Len(branch) /\ branch[k + 1] = "*"
         THEN BranchEnd(branch, name, k + 2, StarClose(branch[k], name, S))
         ELSE BranchEnd(branch, name, k + 1, StepAtom(branch[k], name, S))

\* Regex::is_match: an unanchored search, a match may start and end anywhere.
is_match(q, name) ==
    \E b \in Branches(q) : \E i \in 0..Len(name) : BranchEnd(b, name, 1, {i}) # {}

-----------------------------------------------------------------------------
(* process_fasta_record, lib.rs 38-156 *)

\* The match on *base, lib.rs 102-126: counter increments and masking flags
\* of each arm; the `_` arm panics.
Supported == {"A", "C", "G", "T", "a", "c", "g", "t", "N", "n"}

\* MatchArm with the `n` arm of main.rs 111-116: both counters, both flags.
MatchArm_n_both(base) ==
    IF base \in {"C", "G"} THEN
        [gc |-> 1, non |-> 1, soft |-> 0, hard |-> 0,
         non_masking |-> TRUE, soft_masking |-> FALSE, hard_masking |-> FALSE]
    ELSE IF base \in {"c", "g"} THEN
        [gc |-> 1, non |-> 0, soft |-> 1, hard |-> 0,
         non_masking |-> FALSE, soft_masking |-> TRUE, hard_masking |-> FALSE]
    ELSE IF base \in {"A", "T"} THEN
        [gc |-> 0, non |-> 1, soft |-> 0, hard |-> 0,
         non_masking |-> TRUE, soft_masking |-> FALSE, hard_masking |-> FALSE]
    ELSE IF base \in {"a", "t"} THEN
        [gc |-> 0, non |-> 0, soft |-> 1, hard |-> 0,
         non_masking |-> FALSE, soft_masking |-> TRUE, hard_masking |-> FALSE]
    ELSE IF base = "N" THEN
        [gc |-> 0, non |-> 0, soft |-> 0, hard |-> 1,
         non_masking |-> FALSE, soft_masking |-> FALSE, hard_masking |-> TRUE]
    ELSE
        [gc |-> 0, non |-> 0, soft |-> 1, hard |-> 1,
         non_masking |-> FALSE, soft_masking |-> TRUE, hard_masking |-> TRUE]

\* MatchArm whose c/g arm leaves gc_counter alone: G/C counted in upper case only.
MatchArm_gc_upper_only(base) ==
    IF base \in {"C", "G"} THEN
        [gc |-> 1, non |-> 1, soft |-> 0, hard |-> 0,
         non_masking |-> TRUE, soft_masking |-> FALSE, hard_masking |-> FALSE]
    ELSE IF base \in {"c", "g", "a", "t"} THEN
        [gc |-> 0, non |-> 0, soft |-> 1, hard |-> 0,
         non_masking |-> FALSE, soft_masking |-> TRUE, hard_masking |-> FALSE]
    ELSE IF base \in {"A", "T"} THEN
        [gc |-> 0, non |-> 1, soft |-> 0, hard |-> 0,
         non_masking |-> TRUE, soft_masking |-> FALSE, hard_masking |-> FALSE]
    ELSE
        [gc |-> 0, non |-> 0, soft |-> 0, hard |-> 1,
         non_masking |-> FALSE, soft_masking |-> FALSE, hard_masking |-> TRUE]

\* MatchArm whose a/t arm counts the base but leaves soft_masking unset.
MatchArm_at_unflagged(base) ==
    IF base \in {"C", "G"} THEN
        [gc |-> 1, non |-> 1, soft |-> 0, hard |-> 0,
         non_masking |-> TRUE, soft_masking |-> FALSE, hard_masking |-> FALSE]
    ELSE IF base \in {"c", "g"} THEN
        [gc |-> 1, non |-> 0, soft |-> 1, hard |-> 0,
         non_masking |-> FALSE, soft_masking |-> TRUE, hard_masking |-> FALSE]
    ELSE IF base \in {"A", "T"} THEN
        [gc |-> 0, non |-> 1, soft |-> 0, hard |-> 0,
         non_masking |-> TRUE, soft_masking |-> FALSE, hard_masking |-> FALSE]
    ELSE IF base \in {"a", "t"} THEN
        [gc |-> 0, non |-> 0, soft |-> 1, hard |-> 0,
         non_masking |-> FALSE, soft_masking |-> FALSE, hard_masking |-> FALSE]
    ELSE
        [gc |-> 0, non |-> 0, soft |-> 0, hard |-> 1,
         non_masking |-> FALSE, soft_masking |-> FALSE, hard_masking |-> TRUE]

MatchArm(base) ==
    IF base \in {"C", "G"} THEN
        [gc |-> 1, non |-> 1, soft |-> 0, hard |-> 0,
         non_masking |-> TRUE, soft_masking |-> FALSE, hard_masking |-> FALSE]
    ELSE IF base \in {"c", "g"} THEN
        [gc |-> 1, non |-> 0, soft |-> 1, hard |-> 0,
         non_masking |-> FALSE, soft_masking |-> TRUE, hard_masking |-> FALSE]
    ELSE IF base \in {"A", "T"} THEN
        [gc |-> 0, non |-> 1, soft |-> 0, hard |-> 0,
         non_masking |-> TRUE, soft_masking |-> FALSE, hard_masking |-> FALSE]
    ELSE IF base \in {"a", "t"} THEN
        [gc |-> 0, non |-> 0, soft |-> 1, hard |-> 0,
         non_masking |-> FALSE, soft_masking |-> TRUE, hard_masking |-> FALSE]
    ELSE \* b'n' | b'N'
        [gc |-> 0, non |-> 0, soft |-> 0, hard |-> 1,
         non_masking |-> FALSE, soft_masking |-> FALSE, hard_masking |-> TRUE]

Masking(arm, cat) ==
    IF cat = NonMasked THEN arm.non_masking
    ELSE IF cat = SoftMasked THEN arm.soft_masking
    ELSE arm.hard_masking

\* BedWriter::write_feature_record: a 1-based inclusive feature is written as
\* the line  name <TAB> start-1 <TAB> end  (0-based, half-open).
\* A writer whose file rejects the write returns Err and the line is lost.
write_feature_record(lines, name, feature_start, feature_end) ==
    IF writer_ok THEN Append(lines, <<name, feature_start - 1, feature_end>>)
    ELSE lines

\* The Result of write_bed_record, lib.rs 176-189: the `?` on both
\* Position::try_from and on write_feature_record.
write_bed_record_result(start1, end1) ==
    IF start1 = 0 \/ end1 - 1 <= 0 THEN "Err"
    ELSE IF writer_ok THEN "Ok" ELSE "Err"

\* write_bed_record as in main.rs 162-175: the end is not moved back by one.
write_bed_record_end_kept(lines, sequence_name, start1, end1) ==
    IF start1 = 0 \/ end1 = 0 THEN lines
    ELSE write_feature_record(lines, sequence_name, start1, end1)

\* lib.rs 176-189.  Position::try_from fails on 0, and the error is returned
\* before anything is written.
write_bed_record(lines, sequence_name, start1, end1) ==
    IF start1 = 0 \/ end1 - 1 <= 0 THEN lines
    ELSE write_feature_record(lines, sequence_name, start1, end1 - 1)

\* update_mask_region without the test for a writer.
update_mask_region_always(rs, masking, has_writer, lines, name, idx) ==
    IF masking THEN
        IF rs = None THEN <<Some(idx), lines, "Ok">> ELSE <<rs, lines, "Ok">>
    ELSE IF rs # None THEN <<None, write_bed_record(lines, name, rs[1], idx),
                             write_bed_record_result(rs[1], idx)>>
    ELSE <<rs, lines, "Ok">>

\* update_mask_region that writes a region that ended but keeps its start.
update_mask_region_stays_open(rs, masking, has_writer, lines, name, idx) ==
    IF has_writer THEN
        IF masking THEN
            IF rs = None THEN <<Some(idx), lines, "Ok">> ELSE <<rs, lines, "Ok">>
        ELSE IF rs # None THEN <<rs, write_bed_record(lines, name, rs[1], idx),
                                 write_bed_record_result(rs[1], idx)>>
        ELSE <<rs, lines, "Ok">>
    ELSE <<rs, lines, "Ok">>

\* lib.rs 191-208: the new <<region_start, lines>> of one category and the
\* Result that `let _ =` discards ("Ok" where write_bed_record is not called).
update_mask_region(rs, masking, has_writer, lines, name, idx) ==
    IF has_writer THEN
        IF masking THEN
            IF rs = None THEN <<Some(idx), lines, "Ok">> ELSE <<rs, lines, "Ok">>
        ELSE IF rs # None THEN <<None, write_bed_record(lines, name, rs[1], idx),
                                 write_bed_record_result(rs[1], idx)>>
        ELSE <<rs, lines, "Ok">>
    ELSE <<rs, lines, "Ok">>

\* The number of Err results among the three calls of update_mask_region.
Discarded(upd) == Cardinality({c \in Categories : upd[c][3] = "Err"})

\* f64 division count / length, kept as the exact fraction.
Ratio(count, length) == <<count, length>>
ZeroRatio == <<0, 1>>

\* format!("{:x}", sha256_hasher.finalize()): the digest stands for the bytes fed.
HexDigest(bytes) == <<"sha256">> \o bytes
EmptyString == <<>>

\* EmptyStatistics with the digest of no bytes as the checksum.
EmptyStatistics_digest(name) ==
    [sequence_name |-> name,
     non_masked_bases |-> 0, soft_masked_bases |-> 0, hard_masked_bases |-> 0,
     non_masked_ratio |-> ZeroRatio, soft_masked_ratio |-> ZeroRatio,
     hard_masked_ratio |-> ZeroRatio, gc_content |-> ZeroRatio,
     sequence_length |-> 0, checksum_sha256 |-> HexDigest(<<>>)]

\* lib.rs 61-72
EmptyStatistics(name) ==
    [sequence_name |-> name,
     non_masked_bases |-> 0, soft_masked_bases |-> 0, hard_masked_bases |-> 0,
     non_masked_ratio |-> ZeroRatio, soft_masked_ratio |-> ZeroRatio,
     hard_masked_ratio |-> ZeroRatio, gc_content |-> ZeroRatio,
     sequence_length |-> 0, checksum_sha256 |-> EmptyString]

\* lib.rs 144-155
Statistics(name, non, soft, hard, gc, len, bytes) ==
    [sequence_name |-> name,
     non_masked_bases |-> non, soft_masked_bases |-> soft, hard_masked_bases |-> hard,
     non_masked_ratio |-> Ratio(non, len), soft_masked_ratio |-> Ratio(soft, len),
     hard_masked_ratio |-> Ratio(hard, len), gc_content |-> Ratio(gc, len),
     sequence_length |-> len, checksum_sha256 |-> HexDigest(bytes)]

\* Panic payloads: the format string and its arguments.
UnexpectedBase(base, name) ==
    [fmt |-> "Unexpected base: '{}' in sequence '{}'.", args |-> <<<<base>>, name>>]
InvalidRegularExpression(regex) ==
    [fmt |-> "Invalid regular expression: '{}'", args |-> <<regex>>]
SumMismatch(len, name) ==
    [fmt |-> "The sum of masked bases does not match the sequence length ({}) for '{}'. This seems to be a bug.",
     args |-> <<<<ToString(len)>>, name>>]

NoRegions == [c \in Categories |-> None]
NoFlags == [c \in Categories |-> FALSE]
NoLines == [c \in Categories |-> <<>>]

\* The locals of an invocation before its first statement.
Locals ==
    /\ index1 = 0
    /\ gc_counter = 0
    /\ non_mask_counter = 0
    /\ soft_mask_counter = 0
    /\ hard_mask_counter = 0
    /\ region_start = NoRegions
    /\ flags = NoFlags
    /\ hasher = <<>>
    /\ bed_files = {}
    /\ bed = NoLines
    /\ result = None
    /\ panic_msg = None
    /\ ambiguous = 0
    /\ dropped_errors = 0

locals == <<index1, gc_counter, non_mask_counter, soft_mask_counter,
            hard_mask_counter, region_start, flags, hasher, ambiguous,
            dropped_errors>>
inputs == <<record_name, sequence, output_dir, sequence_match_regex, writer_ok>>
rerun == <<first_result, calls, anchored>>

\* main is not running.
DriverIdle ==
    /\ d_records = <<>>
    /\ d_cuts = {}
    /\ d_pc = <<>>
    /\ d_index1 = <<>>
    /\ d_gc = <<>>
    /\ d_soft = <<>>
    /\ d_hard = <<>>
    /\ d_start = <<>>
    /\ d_fs = <<>>
    /\ d_stdout = <<>>
    /\ d_main = "idle"

\* lib.rs 52-54: the anchored pattern does not compile.
InvalidRegex ==
    /\ pc = "start"
    /\ ~RegexValid(ensure_full_match_regex(sequence_match_regex))
    /\ pc' = "panicked"
    /\ panic_msg' = Some(InvalidRegularExpression(sequence_match_regex))
    /\ UNCHANGED <<dvars, inputs, locals, rerun, bed_files, bed, result>>

\* lib.rs 55-57: the name does not match; the record is ignored.
ExcludeRecord ==
    /\ pc = "start"
    /\ RegexValid(ensure_full_match_regex(sequence_match_regex))
    /\ ~is_match(ensure_full_match_regex(sequence_match_regex), record_name)
    /\ pc' = "returned"
    /\ result' = None
    /\ UNCHANGED <<dvars, inputs, locals, rerun, bed_files, bed, panic_msg>>

\* lib.rs 59-73: an empty sequence is reported with all statistics zero.
EmptyRecord ==
    /\ pc = "start"
    /\ RegexValid(ensure_full_match_regex(sequence_match_regex))
    /\ is_match(ensure_full_match_regex(sequence_match_regex), record_name)
    /\ Len(sequence) = 0
    /\ pc' = "returned"
    /\ result' = Some(EmptyStatistics(record_name))
    /\ UNCHANGED <<dvars, inputs, locals, rerun, bed_files, bed, panic_msg>>

\* lib.rs 75-92: the hasher, the three writers (create_bed_writer, 158-174:
\* a file per category iff output_dir is Some) and the zeroed locals.
OpenWriters ==
    /\ pc = "start"
    /\ RegexValid(ensure_full_match_regex(sequence_match_regex))
    /\ is_match(ensure_full_match_regex(sequence_match_regex), record_name)
    /\ Len(sequence) # 0
    /\ pc' = "loop"
    /\ bed_files' = IF output_dir THEN Categories ELSE {}
    /\ UNCHANGED <<dvars, inputs, locals, rerun, bed, result, panic_msg>>

\* lib.rs 94-131: one iteration of the loop over the bases.
ProcessBase ==
    /\ pc = "loop"
    /\ index1 < Len(sequence)
    /\ LET idx == index1 + 1
           base == sequence[idx]
       IN /\ index1' = idx
          /\ hasher' = Append(hasher, base)
          /\ IF base \notin Supported THEN
                /\ pc' = "panicked"
                /\ panic_msg' = Some(UnexpectedBase(base, record_name))
                /\ UNCHANGED <<gc_counter, non_mask_counter, soft_mask_counter,
                               hard_mask_counter, region_start, flags, bed, ambiguous,
                               dropped_errors>>
             ELSE
                LET arm == MatchArm(base)
                    upd == [c \in Categories |->
                              update_mask_region(region_start[c], Masking(arm, c),
                                                 c \in bed_files, bed[c], record_name, idx)]
                IN /\ gc_counter' = gc_counter + arm.gc
                   /\ non_mask_counter' = non_mask_counter + arm.non
                   /\ soft_mask_counter' = soft_mask_counter + arm.soft
                   /\ hard_mask_counter' = hard_mask_counter + arm.hard
                   /\ flags' = [c \in Categories |-> Masking(arm, c)]
                   /\ ambiguous' = ambiguous +
                         (IF arm.soft_masking /\ arm.hard_masking THEN 1 ELSE 0)
                   /\ region_start' = [c \in Categories |-> upd[c][1]]
                   /\ bed' = [c \in Categories |-> upd[c][2]]
                   /\ dropped_errors' = dropped_errors + Discarded(upd)
                   /\ UNCHANGED <<pc, panic_msg>>
    /\ UNCHANGED <<dvars, inputs, rerun, bed_files, result>>

\* lib.rs 133-155: the open regions are written with the index after the
\* last base, the sum is asserted and the statistics are returned.
Finish ==
    /\ pc = "loop"
    /\ index1 = Len(sequence)
    /\ LET upd == [c \in Categories |->
                     update_mask_region(region_start[c], FALSE, c \in bed_files,
                                        bed[c], record_name, index1 + 1)]
       IN /\ region_start' = [c \in Categories |-> upd[c][1]]
          /\ bed' = [c \in Categories |-> upd[c][2]]
          /\ dropped_errors' = dropped_errors + Discarded(upd)
    /\ IF non_mask_counter + soft_mask_counter + hard_mask_counter = Len(sequence)
       THEN /\ pc' = "returned"
            /\ result' = Some(Statistics(record_name, non_mask_counter, soft_mask_counter,
                                         hard_mask_counter, gc_counter, Len(sequence), hasher))
            /\ UNCHANGED panic_msg
       ELSE /\ pc' = "panicked"
            /\ panic_msg' = Some(SumMismatch(Len(sequence), record_name))
            /\ UNCHANGED result
    /\ UNCHANGED <<dvars, inputs, rerun, bed_files, index1, gc_counter, non_mask_counter,
                   soft_mask_counter, hard_mask_counter, flags, hasher, ambiguous>>

Invocation == InvalidRegex \/ ExcludeRecord \/ EmptyRecord \/ OpenWriters
                \/ ProcessBase \/ Finish

-----------------------------------------------------------------------------
(* Specifications *)

\* Record names and patterns of Spec: a matching pattern, a pattern that
\* excludes the record and one that does not compile.
ScenarioNames == {<<"a">>}
ScenarioPatterns == {<<".", "*">>, <<"b">>, <<"a", "|", "*">>}

Init ==
    /\ record_name \in ScenarioNames
    /\ sequence \in SeqsUpTo(Bases, MaxLen)
    /\ output_dir \in BOOLEAN
    /\ writer_ok = TRUE
    /\ sequence_match_regex \in ScenarioPatterns
    /\ pc = "start"
    /\ Locals
    /\ first_result = None
    /\ calls = 1
    /\ anchored = <<>>
    /\ DriverIdle

Next == Invocation

Spec == Init /\ [][Next]_vars

\* The filter: every record name and every pattern of the modelled regex
\* language up to the bounds, on a few sequences.
FilterNames == SeqsUpTo(NameChars, MaxNameLen) \ {<<>>}
FilterPatterns == {p \in SeqsUpTo(RegexChars, MaxPatLen) : InRegexSubset(p)}
FilterSequences == {<<>>, <<"A">>, <<"X">>, <<"a", "N">>}

InitFilter ==
    /\ record_name \in FilterNames
    /\ sequence \in FilterSequences
    /\ output_dir \in BOOLEAN
    /\ writer_ok = TRUE
    /\ sequence_match_regex \in FilterPatterns
    /\ pc = "start"
    /\ Locals
    /\ first_result = None
    /\ calls = 1
    /\ anchored = <<>>
    /\ DriverIdle

SpecFilter == InitFilter /\ [][Next]_vars

\* tests::ensure_full_match_regex_ok, lib.rs 229-239: the function applied to
\* a pattern, and again to a pattern that already went through it.
AnchorPattern ==
    /\ pc = "anchor"
    /\ Len(anchored) < 2
    /\ anchored' = Append(anchored,
          ensure_full_match_regex(IF anchored = <<>> THEN sequence_match_regex
                                  ELSE anchored[Len(anchored)]))
    /\ UNCHANGED <<dvars, inputs, locals, pc, bed_files, bed, result, panic_msg,
                   first_result, calls>>

InitAnchor ==
    /\ record_name \in ScenarioNames
    /\ sequence = <<>>
    /\ output_dir = FALSE
    /\ writer_ok = TRUE
    /\ sequence_match_regex \in SeqsUpTo(RegexChars, MaxPatLen)
    /\ pc = "anchor"
    /\ Locals
    /\ first_result = None
    /\ calls = 0
    /\ anchored = <<>>
    /\ DriverIdle

SpecAnchor == InitAnchor /\ [][AnchorPattern]_vars

\* process_fasta, lib.rs 31-36, applied to the same record a second time,
\* now with Some(output_dir).
Reinvoke ==
    /\ pc = "returned"
    /\ calls = 1
    /\ ~output_dir
    /\ first_result' = result
    /\ calls' = 2
    /\ output_dir' = TRUE
    /\ pc' = "start"
    /\ index1' = 0
    /\ gc_counter' = 0
    /\ non_mask_counter' = 0
    /\ soft_mask_counter' = 0
    /\ hard_mask_counter' = 0
    /\ region_start' = NoRegions
    /\ flags' = NoFlags
    /\ hasher' = <<>>
    /\ bed_files' = {}
    /\ bed' = NoLines
    /\ result' = None
    /\ panic_msg' = None
    /\ ambiguous' = 0
    /\ dropped_errors' = 0
    /\ UNCHANGED <<dvars, record_name, sequence, sequence_match_regex, writer_ok,
                   anchored>>

InitRerun ==
    /\ record_name \in ScenarioNames
    /\ sequence \in SeqsUpTo(Bases, MaxLen)
    /\ output_dir = FALSE
    /\ writer_ok = TRUE
    /\ sequence_match_regex \in ScenarioPatterns
    /\ pc = "start"
    /\ Locals
    /\ first_result = None
    /\ calls = 1
    /\ anchored = <<>>
    /\ DriverIdle

NextRerun == Invocation \/ Reinvoke

SpecRerun == InitRerun /\ [][NextRerun]_vars

\* tests::process_fasta_record_ok, lib.rs 241-281: one record, its name, the
\* pattern ".*" and a temporary directory as output_dir.
TestName ==
    <<"t", "e", "s", "t", "_", "s", "e", "q", "u", "e", "n", "c", "e">>
TestSequence ==
    <<"C", "T", "G", "T", "G", "C", "T", "G", "G", "C", "A", "T", "A", "G", "T",
      "G", "G", "T", "C", "T", "C", "A", "C", "C", "T", "C", "C", "G", "G", "C",
      "A", "G", "t", "a", "t", "c", "a", "c", "c", "a", "c", "c", "a", "c", "t",
      "g", "g", "g", "c", "a", "c", "a", "a", "g", "c", "t", "t", "c", "t", "c",
      "c", "a", "g", "c", "a", "c", "a", "g", "c", "a", "N", "N", "n", "N", "n",
      "a", "c", "t", "g", "t", "g", "t", "c", "t", "t", "a", "t", "t", "t", "c",
      "t", "c", "c", "t", "t", "g", "t", "a", "c", "t", "c", "c", "c", "a", "g",
      "t", "g", "t", "t", "c", "a", "c", "a", "c", "c", "a", "t", "g", "c", "t",
      "g", "c", "a", "c", "t", "c", "a", "c", "a", "g", "a", "a", "g", "a", "c",
      "t", "c", "t", "t", "c", "g", "t", "t", "g", "a", "t", "a", "t", "t", "t">>

InitTest ==
    /\ record_name = TestName
    /\ sequence = TestSequence
    /\ output_dir = TRUE
    /\ writer_ok = TRUE
    /\ sequence_match_regex = <<".", "*">>
    /\ pc = "start"
    /\ Locals
    /\ first_result = None
    /\ calls = 1
    /\ anchored = <<>>
    /\ DriverIdle

\* The record matches and is not empty: the invocation takes these steps only.
NextTest == OpenWriters \/ ProcessBase \/ Finish

SpecTest == InitTest /\ [][NextTest]_vars

\* The invocation with an output directory whose BED files were created
\* (create_bed_writer, lib.rs 158-174, did not panic) and then reject every
\* write, as on a full disk.
InitWriteFail ==
    /\ record_name \in ScenarioNames
    /\ sequence \in SeqsUpTo(Bases, MaxLen)
    /\ output_dir = TRUE
    /\ writer_ok = FALSE
    /\ sequence_match_regex \in ScenarioPatterns
    /\ pc = "start"
    /\ Locals
    /\ first_result = None
    /\ calls = 1
    /\ anchored = <<>>
    /\ DriverIdle

SpecWriteFail == InitWriteFail /\ [][Next]_vars

\* process_fasta, lib.rs 31-36: the configuration is captured in a closure,
\* nothing is compiled, and the caller applies the closure to the record.
process_fasta ==
    /\ pc = "config"
    /\ pc' = "start"
    /\ calls' = calls + 1
    /\ UNCHANGED <<dvars, inputs, locals, bed_files, bed, result, panic_msg,
                   first_result, anchored>>

InitConfig ==
    /\ record_name \in ScenarioNames
    /\ sequence \in SeqsUpTo(Bases, MaxLen)
    /\ output_dir \in BOOLEAN
    /\ writer_ok = TRUE
    /\ sequence_match_regex \in ScenarioPatterns
    /\ pc = "config"
    /\ Locals
    /\ first_result = None
    /\ calls = 0
    /\ anchored = <<>>
    /\ DriverIdle

NextConfig == process_fasta \/ Invocation

SpecConfig == InitConfig /\ [][NextConfig]_vars

-----------------------------------------------------------------------------
(* main, main.rs 52-160: records.par_iter().map(closure).collect().          *)
(* rayon splits the slice of records into contiguous pieces and folds each   *)
(* piece sequentially on one worker; pieces run in any interleaving.  The    *)
(* slice is always halved once (at len / 2); how far the halves are split    *)
(* again depends on the thread count and on work stealing, so every          *)
(* contiguous partition with that first cut is allowed (d_cuts).  A panic in *)
(* a closure call unwinds out of its piece, the other pieces still run, and  *)
(* the panic is resumed in main once they are finished.                      *)

DriverBases == {"A", "n", "X"}
DriverNameList == <<<<"a">>, <<"b">>, <<"c">>, <<"d">>>>
DriverNames == {DriverNameList[k] : k \in 1..DNumRecords}
DriverCategories == {SoftMasked, HardMasked}

\* One path per category, whatever the record.
BedPath_shared(name, cat) == <<"-" \o cat \o ".bed">>

\* format!("{}-soft-masked.bed", record_name), main.rs 70 and 75
BedPath(name, cat) == name \o <<"-" \o cat \o ".bed">>

\* The match on *base, main.rs 92-118.
DMatchArm(base) ==
    IF base \in {"C", "G"} THEN
        [gc |-> 1, soft |-> 0, hard |-> 0, soft_masking |-> FALSE, hard_masking |-> FALSE]
    ELSE IF base \in {"c", "g"} THEN
        [gc |-> 1, soft |-> 1, hard |-> 0, soft_masking |-> TRUE, hard_masking |-> FALSE]
    ELSE IF base \in {"A", "T"} THEN
        [gc |-> 0, soft |-> 0, hard |-> 0, soft_masking |-> FALSE, hard_masking |-> FALSE]
    ELSE IF base \in {"a", "t"} THEN
        [gc |-> 0, soft |-> 1, hard |-> 0, soft_masking |-> TRUE, hard_masking |-> FALSE]
    ELSE IF base = "N" THEN
        [gc |-> 0, soft |-> 0, hard |-> 1, soft_masking |-> FALSE, hard_masking |-> TRUE]
    ELSE \* b'n'
        [gc |-> 0, soft |-> 1, hard |-> 1, soft_masking |-> TRUE, hard_masking |-> TRUE]

DMasking(arm, cat) == IF cat = SoftMasked THEN arm.soft_masking ELSE arm.hard_masking

\* write_bed_record of main.rs 162-175: the end is passed on as it is.
main_write_bed_record(lines, sequence_name, start1, end1) ==
    IF start1 = 0 \/ end1 = 0 THEN lines
    ELSE write_feature_record(lines, sequence_name, start1, end1)

\* main.rs 120-131 and 133-144: the new <<region start, lines>> of a category.
DUpdateRegion(rs, masking, lines, name, idx) ==
    IF masking THEN
        IF rs = None THEN <<Some(idx), lines>> ELSE <<rs, lines>>
    ELSE IF rs # None THEN <<None, main_write_bed_record(lines, name, rs[1], idx)>>
    ELSE <<rs, lines>>

\* The lines main prints.
Skipping(name) ==
    [kind |-> "Skipping empty sequence", name |-> name, hard |-> 0, soft |-> 0,
     gc |-> ZeroRatio, len |-> 0]
Found(name, hard, soft, gc, len) ==
    [kind |-> "Found", name |-> name, hard |-> hard, soft |-> soft,
     gc |-> Ratio(gc, len), len |-> len]
Done ==
    [kind |-> "Done.", name |-> <<>>, hard |-> 0, soft |-> 0, gc |-> ZeroRatio, len |-> 0]

Indices == DOMAIN d_records

\* Records i and j (i <= j) are in the same piece.
SamePiece(i, j) == \A k \in i..(j - 1) : k \notin d_cuts

\* The worker of i's piece has reached record i.
Reached(i) ==
    /\ d_main = "running"
    /\ d_pc[i] = "pending"
    /\ IF i = 1 \/ (i - 1) \in d_cuts THEN TRUE ELSE d_pc[i - 1] = "done"

\* The piece of record i was left by a panic before it reached i.
Abandoned(i) ==
    /\ d_pc[i] = "pending"
    /\ \E j \in 1..(i - 1) : SamePiece(j, i) /\ d_pc[j] = "panicked"

dlocals == <<d_index1, d_gc, d_soft, d_hard, d_start>>
libvars == <<record_name, sequence, output_dir, sequence_match_regex, pc, index1,
             gc_counter, non_mask_counter, soft_mask_counter, hard_mask_counter,
             region_start, flags, hasher, bed_files, bed, result, panic_msg,
             ambiguous, writer_ok, dropped_errors, first_result, calls, anchored>>

\* main.rs 65-68
SkipEmpty(i) ==
    /\ Reached(i)
    /\ Len(d_records[i].sequence) = 0
    /\ d_stdout' = Append(d_stdout, Skipping(d_records[i].name))
    /\ d_pc' = [d_pc EXCEPT ![i] = "done"]
    /\ UNCHANGED <<libvars, d_records, d_cuts, dlocals, d_fs, d_main>>

\* main.rs 70-86: both BED files are created (truncated), the locals zeroed.
CreateWriters(i) ==
    /\ Reached(i)
    /\ Len(d_records[i].sequence) # 0
    /\ LET created == {BedPath(d_records[i].name, cat) : cat \in DriverCategories}
       IN d_fs' = [path \in DOMAIN d_fs \cup created |->
                      IF path \in created THEN <<>> ELSE d_fs[path]]
    /\ d_pc' = [d_pc EXCEPT ![i] = "loop"]
    /\ UNCHANGED <<libvars, d_records, d_cuts, dlocals, d_stdout, d_main>>

\* main.rs 88-146: one iteration of the loop over the bases.
DProcessBase(i) ==
    /\ d_main = "running"
    /\ d_pc[i] = "loop"
    /\ d_index1[i] < Len(d_records[i].sequence)
    /\ LET idx == d_index1[i] + 1
           base == d_records[i].sequence[idx]
           name == d_records[i].name
       IN /\ d_index1' = [d_index1 EXCEPT ![i] = idx]
          /\ IF base \notin Supported THEN
                /\ d_pc' = [d_pc EXCEPT ![i] = "panicked"]
                /\ UNCHANGED <<d_gc, d_soft, d_hard, d_start, d_fs>>
             ELSE
                LET arm == DMatchArm(base)
                    upd == [cat \in DriverCategories |->
                              DUpdateRegion(d_start[i][cat], DMasking(arm, cat),
                                            d_fs[BedPath(name, cat)], name, idx)]
                IN /\ d_gc' = [d_gc EXCEPT ![i] = @ + arm.gc]
                   /\ d_soft' = [d_soft EXCEPT ![i] = @ + arm.soft]
                   /\ d_hard' = [d_hard EXCEPT ![i] = @ + arm.hard]
                   /\ d_start' = [d_start EXCEPT ![i] =
                                     [cat \in DriverCategories |-> upd[cat][1]]]
                   /\ d_fs' = [path \in DOMAIN d_fs |->
                                  IF \E cat \in DriverCategories : path = BedPath(name, cat)
                                  THEN upd[CHOOSE cat \in DriverCategories :
                                               path = BedPath(name, cat)][2]
                                  ELSE d_fs[path]]
                   /\ UNCHANGED d_pc
    /\ UNCHANGED <<libvars, d_records, d_cuts, d_stdout, d_main>>

\* main.rs 148-156: the summary line is printed and the closure returns.
Report(i) ==
    /\ d_main = "running"
    /\ d_pc[i] = "loop"
    /\ d_index1[i] = Len(d_records[i].sequence)
    /\ d_stdout' = Append(d_stdout,
          Found(d_records[i].name, d_hard[i], d_soft[i], d_gc[i],
                Len(d_records[i].sequence)))
    /\ d_pc' = [d_pc EXCEPT ![i] = "done"]
    /\ UNCHANGED <<libvars, d_records, d_cuts, dlocals, d_fs, d_main>>

\* main.rs 156-159: every closure call returned; collect() returns, main
\* prints "Done." and returns Ok.
Collect ==
    /\ d_main = "running"
    /\ \A i \in Indices : d_pc[i] = "done"
    /\ d_stdout' = Append(d_stdout, Done)
    /\ d_main' = "done"
    /\ UNCHANGED <<libvars, d_records, d_cuts, d_pc, dlocals, d_fs>>

\* main.rs 156: a closure call panicked; when every piece has come to its
\* end the panic is resumed in main, which returns nothing.
ResumePanic ==
    /\ d_main = "running"
    /\ \E i \in Indices : d_pc[i] = "panicked"
    /\ \A i \in Indices : IF d_pc[i] \in {"done", "panicked"} THEN TRUE ELSE Abandoned(i)
    /\ d_main' = "panicked"
    /\ UNCHANGED <<libvars, d_records, d_cuts, d_pc, dlocals, d_fs, d_stdout>>

DriverRecords ==
    {rs \in [1..DNumRecords -> [name : DriverNames,
                                 sequence : SeqsUpTo(DriverBases, DMaxLen)]] :
        \A i, j \in 1..DNumRecords : i # j => rs[i].name # rs[j].name}

InitDriver ==
    /\ d_records \in DriverRecords
    /\ d_cuts \in {cuts \in SUBSET (1..(DNumRecords - 1)) :
                        DNumRecords >= 2 => (DNumRecords \div 2) \in cuts}
    /\ d_pc = [i \in 1..DNumRecords |-> "pending"]
    /\ d_index1 = [i \in 1..DNumRecords |-> 0]
    /\ d_gc = [i \in 1..DNumRecords |-> 0]
    /\ d_soft = [i \in 1..DNumRecords |-> 0]
    /\ d_hard = [i \in 1..DNumRecords |-> 0]
    /\ d_start = [i \in 1..DNumRecords |-> [cat \in DriverCategories |-> None]]
    /\ d_fs = <<>>
    /\ d_stdout = <<>>
    /\ d_main = "running"
    /\ record_name = <<>>
    /\ sequence = <<>>
    /\ output_dir = FALSE
    /\ writer_ok = TRUE
    /\ sequence_match_regex = <<>>
    /\ pc = "idle"
    /\ Locals
    /\ first_result = None
    /\ calls = 0
    /\ anchored = <<>>

NextDriver ==
    \/ \E i \in Indices : SkipEmpty(i)
    \/ \E i \in Indices : CreateWriters(i)
    \/ \E i \in Indices : DProcessBase(i)
    \/ \E i \in Indices : Report(i)
    \/ Collect
    \/ ResumePanic

SpecDriver == InitDriver /\ [][NextDriver]_vars

\* main on a file of INumRecords records with distinct names, each with one
\* of a few sequences: empty, with a run that ends inside the sequence, with
\* two kinds of runs, and with a base the match does not list.
InterleaveSequences ==
    {<<>>, <<"n", "A">>, <<"A", "n", "A">>, <<"n", "X">>}

InterleaveRecords ==
    {rs \in [1..INumRecords -> [name : {DriverNameList[k] : k \in 1..INumRecords},
                                 sequence : InterleaveSequences]] :
        \A i \in 1..INumRecords : rs[i].name = DriverNameList[i]}

InitInterleave ==
    /\ d_records \in InterleaveRecords
    /\ d_cuts \in {cuts \in SUBSET (1..(INumRecords - 1)) :
                        INumRecords >= 2 => (INumRecords \div 2) \in cuts}
    /\ d_pc = [i \in 1..INumRecords |-> "pending"]
    /\ d_index1 = [i \in 1..INumRecords |-> 0]
    /\ d_gc = [i \in 1..INumRecords |-> 0]
    /\ d_soft = [i \in 1..INumRecords |-> 0]
    /\ d_hard = [i \in 1..INumRecords |-> 0]
    /\ d_start = [i \in 1..INumRecords |-> [cat \in DriverCategories |-> None]]
    /\ d_fs = <<>>
    /\ d_stdout = <<>>
    /\ d_main = "running"
    /\ record_name = <<>>
    /\ sequence = <<>>
    /\ output_dir = FALSE
    /\ writer_ok = TRUE
    /\ sequence_match_regex = <<>>
    /\ pc = "idle"
    /\ Locals
    /\ first_result = None
    /\ calls = 0
    /\ anchored = <<>>

SpecInterleave == InitInterleave /\ [][NextDriver]_vars

\* The closure of main.rs 63-156 applied to one record on its own: its locals
\* and its two files after the first k iterations of the loop.
RECURSIVE Alone(_, _)
Alone(rec, k) ==
    IF k = 0 THEN
        [pc |-> "loop", gc |-> 0, soft |-> 0, hard |-> 0,
         start |-> [cat \in DriverCategories |-> None],
         files |-> [cat \in DriverCategories |-> <<>>]]
    ELSE
        LET st == Alone(rec, k - 1)
            base == rec.sequence[k]
        IN IF st.pc = "panicked" THEN st
           ELSE IF base \notin Supported THEN [st EXCEPT !.pc = "panicked"]
           ELSE LET arm == DMatchArm(base)
                    upd == [cat \in DriverCategories |->
                              DUpdateRegion(st.start[cat], DMasking(arm, cat),
                                            st.files[cat], rec.name, k)]
                IN [pc |-> "loop",
                    gc |-> st.gc + arm.gc,
                    soft |-> st.soft + arm.soft,
                    hard |-> st.hard + arm.hard,
                    start |-> [cat \in DriverCategories |-> upd[cat][1]],
                    files |-> [cat \in DriverCategories |-> upd[cat][2]]]

-----------------------------------------------------------------------------
(* Properties of process_fasta_record *)

Range(f) == {f[k] : k \in DOMAIN f}

RECURSIVE Decimal(_)
Decimal(n) == IF n < 10 THEN <<ToString(n)>> ELSE Append(Decimal(n \div 10), ToString(n % 10))

\* The invocation returned statistics of a non-empty record.
ReturnedStatistics == pc = "returned" /\ result # None /\ Len(sequence) > 0

\* Position i of the sequence carries the masking flag of category cat.
Tagged(i, cat) == Masking(MatchArm(sequence[i]), cat)

\* The maximal runs [a, b] (1-based, inclusive) of positions tagged cat.
Runs(cat) ==
    {ab \in (1..Len(sequence)) \X (1..Len(sequence)) :
        /\ ab[1] <= ab[2]
        /\ \A i \in ab[1]..ab[2] : Tagged(i, cat)
        /\ (ab[1] = 1 \/ ~Tagged(ab[1] - 1, cat))
        /\ (ab[2] = Len(sequence) \/ ~Tagged(ab[2] + 1, cat))}

\* C1: with an output directory, the lines written for each category of a
\* returned non-empty record are exactly one interval (a-1, b) per maximal
\* run [a, b] of that category, named after the record, in position order,
\* strictly increasing in start and pairwise disjoint, each as long as its run.
C1_IntervalsAreMaximalRuns ==
    (ReturnedStatistics /\ output_dir) =>
        \A cat \in Categories :
            /\ Len(bed[cat]) = Cardinality(Runs(cat))
            /\ {<<l[2], l[3]>> : l \in Range(bed[cat])}
                   = {<<ab[1] - 1, ab[2]>> : ab \in Runs(cat)}
            /\ \A k \in DOMAIN bed[cat] :
                  /\ bed[cat][k][1] = record_name
                  /\ \E ab \in Runs(cat) :
                        /\ bed[cat][k][2] = ab[1] - 1
                        /\ bed[cat][k][3] - bed[cat][k][2] = ab[2] - ab[1] + 1
            /\ \A j, k \in DOMAIN bed[cat] :
                  j < k => /\ bed[cat][j][2] < bed[cat][k][2]
                           /\ bed[cat][j][3] <= bed[cat][k][2]

C1_Witness ==
    /\ ReturnedStatistics
    /\ output_dir
    /\ Len(sequence) = MaxLen
    /\ Len(bed[NonMasked]) = 2
    /\ Len(bed[SoftMasked]) = 1

\* C2: the counts returned for a non-empty record add up to the sequence
\* length once the bases flagged both soft-masked and hard-masked are taken
\* off, and the assertion on the sum never fails.
C2_CompositionIdentity ==
    /\ ReturnedStatistics =>
          /\ result[1].non_masked_bases + result[1].soft_masked_bases
                + result[1].hard_masked_bases - ambiguous = result[1].sequence_length
          /\ result[1].sequence_length = Len(sequence)
    /\ (pc = "panicked" /\ Len(sequence) > 0) =>
          panic_msg[1].fmt # SumMismatch(Len(sequence), record_name).fmt

C2_Witness ==
    /\ ReturnedStatistics
    /\ Len(sequence) = MaxLen
    /\ "n" \in Range(sequence)
    /\ "a" \in Range(sequence)

\* The classification table of the specification: <<non, soft, hard>>.
SpecTable(base) ==
    IF base \in {"A", "T", "C", "G"} THEN <<TRUE, FALSE, FALSE>>
    ELSE IF base \in {"a", "t", "c", "g"} THEN <<FALSE, TRUE, FALSE>>
    ELSE IF base = "N" THEN <<FALSE, FALSE, TRUE>>
    ELSE <<FALSE, TRUE, TRUE>>

\* The same table with lowercase n hard-masked only.
HardOnlyTable(base) ==
    IF base \in {"A", "T", "C", "G"} THEN <<TRUE, FALSE, FALSE>>
    ELSE IF base \in {"a", "t", "c", "g"} THEN <<FALSE, TRUE, FALSE>>
    ELSE <<FALSE, FALSE, TRUE>>

CatIndex(cat) == IF cat = NonMasked THEN 1 ELSE IF cat = SoftMasked THEN 2 ELSE 3

Counter(cat) ==
    IF cat = NonMasked THEN non_mask_counter
    ELSE IF cat = SoftMasked THEN soft_mask_counter
    ELSE hard_mask_counter

\* After each base: its flags are those of `table`, each counter is the
\* number of bases so far that `table` puts in its category, and with writers
\* a region is open exactly for the flagged categories.
ClassifiedBy(table(_)) ==
    (pc = "loop" /\ index1 >= 1) =>
        \A cat \in Categories :
            /\ flags[cat] = table(sequence[index1])[CatIndex(cat)]
            /\ Counter(cat) =
                  Cardinality({i \in 1..index1 : table(sequence[i])[CatIndex(cat)]})
            /\ output_dir =>
                  ((region_start[cat] # None) = table(sequence[index1])[CatIndex(cat)])

\* C3 as stated: every base is classified as the specification's table says,
\* lowercase n both soft-masked and hard-masked.
C3_Original == ClassifiedBy(SpecTable)

\* C3 amended: A/T/C/G are non-masked only, a/t/c/g soft-masked only, N and
\* lowercase n hard-masked only; every base carries exactly one flag.
C3_Classification ==
    /\ ClassifiedBy(HardOnlyTable)
    /\ (pc = "loop" /\ index1 >= 1) =>
          Cardinality({cat \in Categories : flags[cat]}) = 1

C3_Witness ==
    /\ pc = "loop"
    /\ index1 = 2
    /\ output_dir
    /\ sequence[1] = "a"
    /\ sequence[2] = "n"
    /\ soft_mask_counter = 1
    /\ hard_mask_counter = 1

\* C4: a panic on an unsupported base names the record, the base and its
\* 1-based position, and by then nothing of the record has been written to a
\* BED writer and no statistics are returned.
C4_NoPartialOutput ==
    (pc = "panicked" /\ index1 >= 1 /\ sequence[index1] \notin Supported) =>
        /\ record_name \in Range(panic_msg[1].args)
        /\ <<sequence[index1]>> \in Range(panic_msg[1].args)
        /\ Decimal(index1) \in Range(panic_msg[1].args)
        /\ \A cat \in Categories : bed[cat] = <<>>
        /\ result = None

\* C7: an empty record whose name passes the filter returns statistics
\* with every count, ratio and the length 0 and the empty string as checksum;
\* no BED file is created and no line is written.
C7_EmptyRecord ==
    (pc = "returned" /\ Len(sequence) = 0
        /\ is_match(ensure_full_match_regex(sequence_match_regex), record_name)) =>
        /\ result # None
        /\ result[1].sequence_name = record_name
        /\ result[1].non_masked_bases = 0
        /\ result[1].soft_masked_bases = 0
        /\ result[1].hard_masked_bases = 0
        /\ result[1].non_masked_ratio = ZeroRatio
        /\ result[1].soft_masked_ratio = ZeroRatio
        /\ result[1].hard_masked_ratio = ZeroRatio
        /\ result[1].gc_content = ZeroRatio
        /\ result[1].sequence_length = 0
        /\ result[1].checksum_sha256 = EmptyString
        /\ bed_files = {}
        /\ \A cat \in Categories : bed[cat] = <<>>

C7_Witness ==
    /\ pc = "returned"
    /\ Len(sequence) = 0
    /\ output_dir
    /\ result # None

\* The whole of `name` is one match of pattern p.
FullMatch(p, name) ==
    \E b \in Branches(p) : Len(name) \in BranchEnd(b, name, 1, {0})

\* C8 as stated: a record whose name is not, as a whole, a match of the
\* configured pattern is excluded: no statistics are returned for it, no BED
\* file is created and no line is written, whatever its sequence holds.
C8_Excluded ==
    ~FullMatch(sequence_match_regex, record_name) =>
        /\ result = None
        /\ bed_files = {}
        /\ \A cat \in Categories : bed[cat] = <<>>

\* C9: the anchored pattern starts with '^' and ends with '$'; a pattern
\* with neither anchor becomes '^' + p + '$', a pattern with both is returned
\* as it is, and anchoring the anchored pattern changes nothing.
C9_Anchoring ==
    /\ Len(anchored) >= 1 =>
          /\ starts_with(anchored[1], "^")
          /\ ends_with(anchored[1], "$")
          /\ (Len(sequence_match_regex) = 0
                \/ (sequence_match_regex[1] # "^"
                      /\ sequence_match_regex[Len(sequence_match_regex)] # "$"))
                => anchored[1] = <<"^">> \o sequence_match_regex \o <<"$">>
          /\ (Len(sequence_match_regex) > 0
                /\ sequence_match_regex[1] = "^"
                /\ sequence_match_regex[Len(sequence_match_regex)] = "$")
                => anchored[1] = sequence_match_regex
          \* only anchors are added
          /\ \E pre \in {<<>>, <<"^">>}, post \in {<<>>, <<"$">>} :
                anchored[1] = pre \o sequence_match_regex \o post
    /\ Len(anchored) = 2 => anchored[2] = anchored[1]

C9_Witness ==
    /\ Len(anchored) = 2
    /\ sequence_match_regex = <<"a", "$">>
    /\ anchored[2] = <<"^", "a", "$">>

\* C10: without an output directory no region is ever opened, no BED file
\* is created and no line is written; and the statistics returned are those
\* returned for the same record with an output directory.
C10_StatisticsOnly ==
    /\ ~output_dir =>
          /\ region_start = NoRegions
          /\ bed_files = {}
          /\ bed = NoLines
    /\ (calls = 2 /\ pc = "returned") => result = first_result

C10_Witness ==
    /\ calls = 2
    /\ pc = "returned"
    /\ output_dir
    /\ result # None
    /\ result = first_result
    /\ Len(sequence) = MaxLen
    /\ result[1].soft_masked_bases = 2
    /\ Len(bed[SoftMasked]) = 2

-----------------------------------------------------------------------------
(* Properties of main *)

\* Every base of record i is one the match lists.
WellFormed(i) ==
    \A k \in DOMAIN d_records[i].sequence : d_records[i].sequence[k] \in Supported

\* The names on the per-record lines printed so far, in print order.
PrintedNames ==
    LET lines == SelectSeq(d_stdout, LAMBDA l : l.kind = "Found")
    IN [k \in DOMAIN lines |-> lines[k].name]

CharRank(c) == IF c = "a" THEN 1 ELSE IF c = "b" THEN 2 ELSE IF c = "c" THEN 3 ELSE 4

\* Lexicographic order of names.
RECURSIVE NameLess(_, _)
NameLess(x, y) ==
    IF y = <<>> THEN FALSE
    ELSE IF x = <<>> THEN TRUE
    ELSE IF CharRank(Head(x)) # CharRank(Head(y)) THEN CharRank(Head(x)) < CharRank(Head(y))
    ELSE NameLess(Tail(x), Tail(y))

\* C5 as stated: when a record panics on an unsupported base, every
\* well-formed record of the file is still processed to its end, its
\* summary line is printed and collect() hands the results to main, whatever
\* the workers' schedule.
C5_FailureIsolation ==
    (d_main \in {"done", "panicked"} /\ \E j \in Indices : d_pc[j] = "panicked") =>
        /\ \A i \in Indices :
              WellFormed(i) =>
                  /\ d_pc[i] = "done"
                  /\ \E k \in DOMAIN d_stdout : d_stdout[k].name = d_records[i].name
        /\ d_main = "done"

\* C6 as stated: what main hands out is ordered by record name, whatever
\* the workers' schedule.
C6_SortedByName ==
    d_main = "done" =>
        \A j, k \in DOMAIN PrintedNames :
            j < k => NameLess(PrintedNames[j], PrintedNames[k])

-----------------------------------------------------------------------------
(* C11: the record of tests::process_fasta_record_ok *)

\* C11: the invocation on the 150-base test record with an output directory
\* returns 32 non-masked, 113 soft-masked and 5 hard-masked bases, length 150
\* and 73 G/C bases, and has written the non-masked interval (0,32), the
\* soft-masked intervals (32,70) and (75,150) and the hard-masked interval
\* (70,75); it does not panic.
C11_TestRecord ==
    /\ pc # "panicked"
    /\ pc = "returned" =>
          /\ result # None
          /\ result[1].non_masked_bases = 32
          /\ result[1].soft_masked_bases = 113
          /\ result[1].hard_masked_bases = 5
          /\ result[1].sequence_length = 150
          /\ result[1].gc_content = Ratio(73, 150)
          /\ bed_files = Categories
          /\ bed[NonMasked] = <<<<TestName, 0, 32>>>>
          /\ bed[SoftMasked] = <<<<TestName, 32, 70>>, <<TestName, 75, 150>>>>
          /\ bed[HardMasked] = <<<<TestName, 70, 75>>>>

C11_Witness ==
    /\ pc = "returned"
    /\ sequence = TestSequence
    /\ output_dir
    /\ index1 = 150
    /\ Len(bed[SoftMasked]) = 2

-----------------------------------------------------------------------------
(* C12: a BED writer that fails *)

\* C12: an invocation in which the write of an interval failed does not hand
\* statistics to its caller as if nothing had happened: the failure reaches
\* the caller, so no invocation returns with a write error discarded.
C12_WriteErrorSurfaced ==
    (pc = "returned" /\ result # None) => dropped_errors = 0

\* The second half of the sentence: the counters do not depend on the writers.
WriteFailureKeepsStatistics ==
    ReturnedStatistics =>
        /\ result[1].sequence_length = Len(sequence)
        /\ result[1].non_masked_bases =
              Cardinality({i \in 1..Len(sequence) : MatchArm(sequence[i]).non = 1})
        /\ result[1].soft_masked_bases =
              Cardinality({i \in 1..Len(sequence) : MatchArm(sequence[i]).soft = 1})
        /\ result[1].hard_masked_bases =
              Cardinality({i \in 1..Len(sequence) : MatchArm(sequence[i]).hard = 1})

-----------------------------------------------------------------------------
(* C13: when the pattern is compiled *)

\* C13: a pattern that does not compile is found at configuration time, so
\* an invocation on a record is started only with a pattern that compiles.
C13_DetectedAtConfiguration ==
    calls > 0 => RegexValid(ensure_full_match_regex(sequence_match_regex))

-----------------------------------------------------------------------------
(* C14: the intervals written by main *)

\* Position k of record i carries the masking flag of category cat in main.
DTagged(i, k, cat) == DMasking(DMatchArm(d_records[i].sequence[k]), cat)

\* The maximal runs [a, b] (1-based, inclusive) of record i tagged cat.
DRuns(i, cat) ==
    LET len == Len(d_records[i].sequence)
    IN {ab \in (1..len) \X (1..len) :
           /\ ab[1] <= ab[2]
           /\ \A k \in ab[1]..ab[2] : DTagged(i, k, cat)
           /\ (ab[1] = 1 \/ ~DTagged(i, ab[1] - 1, cat))
           /\ (ab[2] = len \/ ~DTagged(i, ab[2] + 1, cat))}

\* C14: when the closure of main has returned for a non-empty record, the
\* soft-masked and the hard-masked BED file of the record each hold exactly
\* one line (a-1, b) per maximal run [a, b] of tagged bases, the run that
\* reaches the last base included (its end is the sequence length).
C14_DriverIntervals ==
    \A i \in DOMAIN d_records :
        (d_pc[i] = "done" /\ Len(d_records[i].sequence) > 0) =>
            \A cat \in DriverCategories :
                LET lines == d_fs[BedPath(d_records[i].name, cat)]
                IN /\ Len(lines) = Cardinality(DRuns(i, cat))
                   /\ {<<l[1], l[2], l[3]>> : l \in Range(lines)}
                         = {<<d_records[i].name, ab[1] - 1, ab[2]>> : ab \in DRuns(i, cat)}

-----------------------------------------------------------------------------
(* C15: the closure calls of main do not interfere *)

\* C15: for records with distinct names, in every interleaving of the closure
\* calls, what the call of a record has counted, holds as open regions and
\* has written to its files after k bases is what the call of that record
\* alone counts, holds and writes after k bases; it panics where the call
\* alone panics; the line it prints holds the statistics of the call alone;
\* and a record whose call has not begun has no file.
C15_Independent ==
    \A i \in DOMAIN d_records :
        LET rec == d_records[i]
            st == Alone(rec, d_index1[i])
            len == Len(rec.sequence)
        IN /\ d_pc[i] = "pending" =>
                 \A cat \in DriverCategories : BedPath(rec.name, cat) \notin DOMAIN d_fs
           /\ (d_pc[i] # "pending" /\ len > 0) =>
                 /\ d_gc[i] = st.gc
                 /\ d_soft[i] = st.soft
                 /\ d_hard[i] = st.hard
                 /\ d_start[i] = st.start
                 /\ \A cat \in DriverCategories :
                       /\ BedPath(rec.name, cat) \in DOMAIN d_fs
                       /\ d_fs[BedPath(rec.name, cat)] = st.files[cat]
                 /\ (d_pc[i] = "panicked") = (st.pc = "panicked")
           /\ (d_pc[i] = "done" /\ len > 0) =>
                 /\ d_index1[i] = len
                 /\ Cardinality({k \in DOMAIN d_stdout : d_stdout[k].name = rec.name}) = 1
                 /\ \E k \in DOMAIN d_stdout :
                       d_stdout[k] = Found(rec.name, Alone(rec, len).hard,
                                           Alone(rec, len).soft, Alone(rec, len).gc, len)

\* Two calls are inside their loops at once and each has written a line.
C15_Witness ==
    \E i, j \in DOMAIN d_records :
        /\ i # j
        /\ d_pc[i] = "loop" /\ d_pc[j] = "loop"
        /\ d_fs[BedPath(d_records[i].name, HardMasked)] # <<>>
        /\ d_fs[BedPath(d_records[j].name, SoftMasked)] # <<>>

-----------------------------------------------------------------------------
(* C16: the G/C count *)

\* The positions among the first n that hold C, G, c or g.
GcPositions(n) == {i \in 1..n : sequence[i] \in {"C", "G", "c", "g"}}

\* C16: after each base gc_counter is the number of positions so far that
\* hold C, G, c or g (A, T, a, t, N and n add nothing), and the G/C count of
\* the returned statistics is that number for the whole sequence, at most
\* the non-masked plus the soft-masked count and at most the length.
C16_GcCount ==
    /\ pc = "loop" => gc_counter = Cardinality(GcPositions(index1))
    /\ ReturnedStatistics =>
          /\ result[1].gc_content =
                Ratio(Cardinality(GcPositions(Len(sequence))), Len(sequence))
          /\ result[1].gc_content[1] <=
                result[1].non_masked_bases + result[1].soft_masked_bases
          /\ result[1].gc_content[1] <= result[1].sequence_length

C16_Witness ==
    /\ ReturnedStatistics
    /\ Len(sequence) = MaxLen
    /\ result[1].gc_content[1] = 2
    /\ result[1].soft_masked_bases = 1
    /\ result[1].non_masked_bases = 1
    /\ result[1].hard_masked_bases = 1

-----------------------------------------------------------------------------
(* C17: interval lengths and counts *)

RECURSIVE SumLengths(_)
SumLengths(lines) ==
    IF lines = <<>> THEN 0
    ELSE (lines[1][3] - lines[1][2]) + SumLengths(Tail(lines))

\* C17: with an output directory, for each of the three categories the
\* lengths end0 - start0 of the intervals written for a returned record add
\* up to the count of that category in the returned statistics.
C17_LengthsAddUp ==
    (pc = "returned" /\ result # None /\ output_dir) =>
        /\ SumLengths(bed[NonMasked]) = result[1].non_masked_bases
        /\ SumLengths(bed[SoftMasked]) = result[1].soft_masked_bases
        /\ SumLengths(bed[HardMasked]) = result[1].hard_masked_bases

C17_Witness ==
    /\ ReturnedStatistics
    /\ output_dir
    /\ Len(bed[HardMasked]) = 2
    /\ Len(bed[SoftMasked]) = 1
    /\ SumLengths(bed[HardMasked]) = 2

-----------------------------------------------------------------------------
(* C18: one open region at a time *)

\* The intervals of all categories that hold the 0-based position p.
Covering(p) ==
    {ck \in Categories \X (1..Len(sequence)) :
        /\ ck[2] \in DOMAIN bed[ck[1]]
        /\ bed[ck[1]][ck[2]][2] <= p
        /\ p < bed[ck[1]][ck[2]][3]}

\* C18: with an output directory, after the base at position i exactly one
\* of the three regions is open, it is the region of that base's category
\* and its start s satisfies 1 <= s <= i; after the closing calls that
\* follow the loop no region is open and the written intervals of the three
\* categories lie within [0, length) and cover each of its positions once.
C18_OneOpenRegion ==
    /\ (pc = "loop" /\ output_dir /\ index1 >= 1) =>
          \E cat \in Categories :
              /\ region_start[cat] # None
              /\ 1 <= region_start[cat][1]
              /\ region_start[cat][1] <= index1
              /\ Tagged(index1, cat)
              /\ \A other \in Categories \ {cat} : region_start[other] = None
    /\ (ReturnedStatistics /\ output_dir) =>
          /\ \A cat \in Categories : region_start[cat] = None
          /\ \A cat \in Categories : \A k \in DOMAIN bed[cat] :
                /\ 0 <= bed[cat][k][2]
                /\ bed[cat][k][2] < bed[cat][k][3]
                /\ bed[cat][k][3] <= Len(sequence)
          /\ \A p \in 0..(Len(sequence) - 1) : Cardinality(Covering(p)) = 1

\* The open region has changed category and the new one began at this base.
C18_Witness ==
    /\ pc = "loop"
    /\ output_dir
    /\ index1 = 2
    /\ region_start[HardMasked] = Some(2)
    /\ Len(bed[SoftMasked]) = 1

====
